---- MODULE Spec2Model ----
(***************************************************************************)
(* dirnav: a terminal file browser (src/src/main.rs).                      *)
(*                                                                         *)
(* The model covers the navigation/preview state machine (struct App and   *)
(* the key dispatch of run_app), the directory lister (read_dir_entries),  *)
(* the preview loader (load_file_preview) and the scroll clamp of ui.      *)
(*                                                                         *)
(* Representation                                                          *)
(*   - a file name is the sequence of its bytes (ASCII codes), so that     *)
(*     to_lowercase, starts_with('.') and the ordering of Strings are      *)
(*     computed and not assumed;                                           *)
(*   - a path is the sequence of its components, the root being << >>;     *)
(*   - Option<T> is a sequence of length at most one (None == << >>);      *)
(*   - a file's bytes are run-length encoded by byte class, so that a      *)
(*     file of 600 KiB is a value TLC can hold;                            *)
(*   - the filesystem is a fixed snapshot with permissions; every          *)
(*     directory of it may be the directory the process is started in.     *)
(***************************************************************************)
EXTENDS Integers, Sequences, FiniteSets, TLC

VARIABLES cwd, entries, selected, show_hidden,
          preview_path, preview_content, preview_scroll, preview_truncated,
          rect_height, event, pc,
          file_bytes, raw_mode, alt_screen, failed

\* What the event loop neither reads nor writes:
\*   file_bytes  the bytes handed to the preview loader where the loader is
\*               run on its own (SpecLoad)
\*   raw_mode    the terminal is in raw mode
\*   alt_screen  the terminal shows the alternate screen
\*   failed      a fallible call has returned Err
outside == <<file_bytes, raw_mode, alt_screen, failed>>

vars == <<cwd, entries, selected, show_hidden,
          preview_path, preview_content, preview_scroll, preview_truncated,
          rect_height, event, pc, file_bytes, raw_mode, alt_screen, failed>>

----------------------------------------------------------------------------
(* Bounds of the model *)

\* preview_scroll is a usize: scroll-down events are accepted up to this value
MaxScroll == 3
\* heights of the preview rectangle the terminal can be resized to: 0..MaxHeight
MaxHeight == 2

----------------------------------------------------------------------------
(* Generic helpers *)

None == << >>
Some(x) == << x >>
IsSome(o) == Len(o) = 1
Unwrap(o) == o[1]

Min(a, b) == IF a <= b THEN a ELSE b
Max(a, b) == IF a >= b THEN a ELSE b

\* usize::saturating_sub
saturating_sub(a, b) == IF a >= b THEN a - b ELSE 0

----------------------------------------------------------------------------
(* Strings as byte sequences *)

\* the byte '.'
Dot == 46
DotDot == << Dot, Dot >>

\* char::to_lowercase on the ASCII range
LowerByte(c) == IF c >= 65 /\ c <= 90 THEN c + 32 ELSE c

\* String::to_lowercase
to_lowercase(s) == [i \in 1..Len(s) |-> LowerByte(s[i])]

\* str::starts_with('.')
starts_with_dot(s) == Len(s) >= 1 /\ s[1] = Dot

\* Ord for String: lexicographic on bytes, a proper prefix is smaller
RECURSIVE StrLess(_, _)
StrLess(a, b) ==
    IF b = << >> THEN FALSE
    ELSE IF a = << >> THEN TRUE
    ELSE IF a[1] < b[1] THEN TRUE
    ELSE IF a[1] > b[1] THEN FALSE
    ELSE StrLess(Tail(a), Tail(b))

StrLeq(a, b) == ~ StrLess(b, a)

----------------------------------------------------------------------------
(* The filesystem snapshot *)

\* file names
n_home == << 104, 111, 109, 101 >>          \* "home"
n_priv == << 112, 114, 105, 118 >>          \* "priv"
n_Core == << 99, 111, 114, 101 >>           \* "core"
n_btxt == << 98, 46, 116, 120, 116 >>       \* "b.txt"
n_A    == << 65 >>                          \* "A"
n_a    == << 97 >>                          \* "a"
n_git  == << 46, 103, 105, 116 >>           \* ".git"
n_env  == << 46, 101, 110, 118 >>           \* ".env"
n_big  == << 98, 105, 103 >>                \* "big"
n_lnk  == << 108, 110, 107 >>               \* "lnk"
n_C    == << 67 >>                          \* "C"
n_B    == << 66 >>                          \* "B"
n_bin  == << 98, 105, 110 >>                \* "bin"
n_mb   == << 109, 98 >>                     \* "mb"
n_in   == << 105, 110 >>                    \* "in"
n_x    == << 46, 120 >>                     \* ".x"
n_d    == << 100 >>                         \* "d"
n_f    == << 102 >>                         \* "f"

Root == << >>

\* A run of n bytes of one class:
\*   "P" printable ASCII or space/tab/CR      "N" the byte LF
\*   "C" an ASCII control byte (valid UTF-8)  "X" a byte that is no UTF-8
\*   "M" two-byte UTF-8 characters (n counts bytes)
Run(c, n) == [cls |-> c, n |-> n]

DirNode(raw, r, x) ==
    [kind |-> "dir", readable |-> r, searchable |-> x, raw |-> raw, content |-> << >>]
FileNode(content, r) ==
    [kind |-> "file", readable |-> r, searchable |-> FALSE, raw |-> << >>, content |-> content]
\* a symbolic link whose target is a directory
SymDirNode ==
    [kind |-> "symdir", readable |-> TRUE, searchable |-> TRUE, raw |-> << >>, content |-> << >>]

KiB == 1024

\* The snapshot: path |-> node.  raw is the order in which the directory
\* stream yields the names.
FsPaths ==
    { Root,
      << n_home >>, << n_priv >>, << n_Core >>,
      << n_home, n_btxt >>, << n_home, n_A >>, << n_home, n_git >>,
      << n_home, n_a >>, << n_home, n_env >>, << n_home, n_big >>,
      << n_home, n_lnk >>,
      << n_home, n_A, n_C >>, << n_home, n_A, n_B >>, << n_home, n_A, n_bin >>,
      << n_home, n_A, n_mb >>,
      << n_home, n_a, n_in >>,
      << n_home, n_git, n_x >>,
      << n_priv, n_d >>, << n_priv, n_f >> }

FsNode(p) ==
    CASE p = Root -> DirNode(<< n_priv, n_Core, n_home >>, TRUE, TRUE)
      [] p = << n_home >> ->
            DirNode(<< n_btxt, n_A, n_git, n_a, n_env, n_big, n_lnk >>, TRUE, TRUE)
      [] p = << n_priv >> -> DirNode(<< n_f, n_d >>, TRUE, FALSE)
      \* 3 control bytes in 8: binary
      [] p = << n_Core >> -> FileNode(<< Run("C", 3), Run("P", 5) >>, TRUE)
      \* three lines, the last without a line terminator
      [] p = << n_home, n_btxt >> ->
            FileNode(<< Run("P", 5), Run("N", 1), Run("P", 3), Run("N", 1), Run("P", 2) >>, TRUE)
      [] p = << n_home, n_A >> -> DirNode(<< n_mb, n_C, n_bin, n_B >>, TRUE, TRUE)
      [] p = << n_home, n_git >> -> DirNode(<< n_x >>, TRUE, TRUE)
      \* may be passed through, may not be listed
      [] p = << n_home, n_a >> -> DirNode(<< n_in >>, FALSE, TRUE)
      [] p = << n_home, n_env >> -> FileNode(<< >>, TRUE)
      \* 600 KiB of text
      [] p = << n_home, n_big >> -> FileNode(<< Run("P", 10), Run("N", 600 * KiB - 10) >>, TRUE)
      [] p = << n_home, n_lnk >> -> SymDirNode
      \* a regular file that cannot be opened
      [] p = << n_home, n_A, n_C >> -> FileNode(<< Run("P", 4) >>, FALSE)
      \* one byte in 8 is no UTF-8
      [] p = << n_home, n_A, n_B >> -> FileNode(<< Run("P", 7), Run("X", 1) >>, TRUE)
      \* 600 KiB of control bytes
      [] p = << n_home, n_A, n_bin >> -> FileNode(<< Run("C", 600 * KiB) >>, TRUE)
      \* 600 KiB of text with a two-byte character across the 512 KiB mark
      [] p = << n_home, n_A, n_mb >> ->
            FileNode(<< Run("P", 512 * KiB - 2), Run("N", 1), Run("M", 2), Run("P", 88 * KiB - 1) >>, TRUE)
      [] p = << n_home, n_a, n_in >> -> DirNode(<< >>, TRUE, TRUE)
      [] p = << n_home, n_git, n_x >> ->
            FileNode(<< Run("N", 2), Run("P", 1), Run("N", 3) >>, TRUE)
      [] p = << n_priv, n_d >> -> DirNode(<< >>, TRUE, TRUE)
      [] p = << n_priv, n_f >> -> FileNode(<< Run("P", 1) >>, TRUE)

\* Path::parent
parent(p) == IF p = << >> THEN None ELSE Some(SubSeq(p, 1, Len(p) - 1))

\* Path::join with a single component
join(p, name) == Append(p, name)

\* every directory on the way to p may be searched
Traversable(p) ==
    \A i \in 0..(Len(p) - 1) :
        LET a == SubSeq(p, 1, i) IN a \in FsPaths /\ FsNode(a).searchable

\* fs::metadata(p).is_ok(): follows symbolic links
Resolves(p) == p \in FsPaths /\ Traversable(p)

\* Path::is_dir
is_dir(p) == Resolves(p) /\ FsNode(p).kind \in {"dir", "symdir"}

\* Path::is_file
is_file(p) == Resolves(p) /\ FsNode(p).kind = "file"

\* fs::read_dir(p).is_ok()
read_dir_ok(p) == Resolves(p) /\ FsNode(p).kind = "dir" /\ FsNode(p).readable

\* fs::read(p).is_ok()
read_ok(p) == is_file(p) /\ FsNode(p).readable

\* DirEntry::file_type().is_dir(): the type of the entry itself, links not followed
file_type_is_dir(p) == p \in FsPaths /\ FsNode(p).kind = "dir"

\* the directories a process can have as its working directory
StartDirs == { p \in FsPaths : Resolves(p) /\ FsNode(p).kind = "dir" }

----------------------------------------------------------------------------
(* Directory lister *)

\* struct DirEntry
DirEntry(name, d) == [name |-> name, is_dir |-> d]

\* mutant of NameLeq: the names are compared as they are
NameLeq_case_sensitive(a, b) == StrLeq(a.name, b.name)

\* the comparator of sort_by: lowercased names, a before b or equal
NameLeq(a, b) == StrLeq(to_lowercase(a.name), to_lowercase(b.name))

\* slice::sort_by is a stable sort: x goes behind every element that is
\* not greater than it
RECURSIVE InsertSorted(_, _)
InsertSorted(x, s) ==
    IF s = << >> THEN << x >>
    ELSE IF NameLeq(s[1], x) THEN << s[1] >> \o InsertSorted(x, Tail(s))
    ELSE << x >> \o s

RECURSIVE sort_by_name(_)
sort_by_name(s) ==
    IF s = << >> THEN << >>
    ELSE InsertSorted(s[Len(s)], sort_by_name(SubSeq(s, 1, Len(s) - 1)))

\* the entries the directory stream of path yields, classified
RawEntries(path) ==
    LET raw == FsNode(path).raw
    IN  [i \in 1..Len(raw) |-> DirEntry(raw[i], file_type_is_dir(join(path, raw[i])))]

IsDirEntry(e) == e.is_dir
IsFileEntry(e) == ~ e.is_dir

\* mutant of read_dir_entries: ".." is listed although the directory cannot be read
read_dir_entries_dotdot_on_error(path) ==
    LET dirs  == sort_by_name(SelectSeq(RawEntries(path), IsDirEntry))
        files == sort_by_name(SelectSeq(RawEntries(path), IsFileEntry))
        up    == IF IsSome(parent(path)) THEN << DirEntry(DotDot, TRUE) >> ELSE << >>
    IN  IF ~ read_dir_ok(path) THEN up ELSE up \o dirs \o files

\* mutant of read_dir_entries: ".." is listed whether there is a parent or not
read_dir_entries_always_dotdot(path) ==
    IF ~ read_dir_ok(path) THEN << >>
    ELSE LET dirs  == sort_by_name(SelectSeq(RawEntries(path), IsDirEntry))
             files == sort_by_name(SelectSeq(RawEntries(path), IsFileEntry))
         IN  << DirEntry(DotDot, TRUE) >> \o dirs \o files

\* fn read_dir_entries
read_dir_entries(path) ==
    IF ~ read_dir_ok(path) THEN << >>
    ELSE LET dirs  == sort_by_name(SelectSeq(RawEntries(path), IsDirEntry))
             files == sort_by_name(SelectSeq(RawEntries(path), IsFileEntry))
             up    == IF IsSome(parent(path)) THEN << DirEntry(DotDot, TRUE) >> ELSE << >>
         IN  up \o dirs \o files

----------------------------------------------------------------------------
(* File preview loader *)

\* const MAX_PREVIEW_BYTES
MAX_PREVIEW_BYTES == 512 * KiB

RECURSIVE ContentLen(_)
ContentLen(runs) == IF runs = << >> THEN 0 ELSE runs[1].n + ContentLen(Tail(runs))

\* &content[..k]
RECURSIVE TakeBytes(_, _)
TakeBytes(runs, k) ==
    IF runs = << >> \/ k = 0 THEN << >>
    ELSE IF runs[1].n <= k THEN << runs[1] >> \o TakeBytes(Tail(runs), k - runs[1].n)
    ELSE << Run(runs[1].cls, k) >>

\* the count of bytes b with !b.is_ascii_graphic() && !matches!(b, ' ' | LF | CR | TAB)
RECURSIVE non_print(_)
non_print(runs) ==
    IF runs = << >> THEN 0
    ELSE (IF runs[1].cls \in {"C", "X", "M"} THEN runs[1].n ELSE 0) + non_print(Tail(runs))

\* String::from_utf8(..).is_ok()
valid_utf8(runs) ==
    \A i \in 1..Len(runs) :
        /\ runs[i].cls # "X"
        /\ runs[i].cls = "M" => runs[i].n % 2 = 0

RECURSIVE CountLF(_)
CountLF(runs) ==
    IF runs = << >> THEN 0
    ELSE (IF runs[1].cls = "N" THEN runs[1].n ELSE 0) + CountLF(Tail(runs))

\* LinesWithEndings::from(..).count(): one line per LF, and one more for
\* what follows the last LF
LinesWithEndings(runs) ==
    CountLF(runs) + (IF runs # << >> /\ runs[Len(runs)].cls # "N" THEN 1 ELSE 0)

\* Vec<Line>: what the lines were made from, how many there are, and the
\* number of bytes of the file they show
Lines(tag, n, bytes) == [tag |-> tag, nlines |-> n, bytes |-> bytes]

\* mutant of is_binary: the quarter itself counts as binary
is_binary_from_quarter(text) == non_print(text) >= ContentLen(text) \div 4

\* the test `non_print > text.len() / 4`
is_binary(text) == non_print(text) > ContentLen(text) \div 4

\* fn load_file_preview once fs::read has returned Ok(content)
load_bytes(content) ==
    LET truncated == ContentLen(content) > MAX_PREVIEW_BYTES
        text      == IF truncated THEN TakeBytes(content, MAX_PREVIEW_BYTES) ELSE content
    IN  IF ContentLen(content) = 0 THEN << Lines("empty", 1, 0), FALSE >>
        ELSE IF is_binary(text) THEN << Lines("binary", 1, 0), FALSE >>
        ELSE IF ~ valid_utf8(text) THEN << Lines("not_utf8", 1, 0), FALSE >>
        ELSE << Lines("highlighted", LinesWithEndings(text), ContentLen(text)), truncated >>

\* fn load_file_preview: <<lines, truncated>>
load_file_preview(path) ==
    IF ~ read_ok(path) THEN << Lines("error", 1, 0), FALSE >>
    ELSE load_bytes(FsNode(path).content)

----------------------------------------------------------------------------
(* struct App and its methods: each takes the value of self and yields the *)
(* value of self when the method returns                                   *)

\* the fields of App
App ==
    [cwd |-> cwd, entries |-> entries, selected |-> selected,
     show_hidden |-> show_hidden, preview_path |-> preview_path,
     preview_content |-> preview_content, preview_scroll |-> preview_scroll,
     preview_truncated |-> preview_truncated]

\* mutant of Retained: the synthetic parent entry is dropped with the dotfiles
Retained_no_dotdot(e) == ~ starts_with_dot(e.name)

\* the closure of entries.retain
Retained(e) == e.name = DotDot \/ ~ starts_with_dot(e.name)

\* the value refresh_entries stores in self.entries
listing(path, show) ==
    LET read == read_dir_entries(path)
    IN  IF ~ show THEN SelectSeq(read, Retained) ELSE read

\* mutant of refresh_entries: the selection is not clamped
refresh_entries_no_clamp(self) ==
    [self EXCEPT !.entries = listing(self.cwd, self.show_hidden)]

\* mutant of refresh_entries: the selection is reset
refresh_entries_reset(self) ==
    [self EXCEPT !.entries = listing(self.cwd, self.show_hidden), !.selected = 0]

\* fn refresh_entries
refresh_entries(self) ==
    LET kept == listing(self.cwd, self.show_hidden)
    IN  [self EXCEPT !.entries = kept,
                     !.selected = Min(self.selected, saturating_sub(Len(kept), 1))]

\* fn App::new
new(initial_cwd) ==
    refresh_entries(
        [cwd |-> initial_cwd, entries |-> << >>, selected |-> 0,
         show_hidden |-> FALSE, preview_path |-> None, preview_content |-> None,
         preview_scroll |-> 0, preview_truncated |-> FALSE])

\* mutant of selection_up: the wrap-around the source has commented out
selection_up_wrap(self) ==
    IF self.entries = << >> THEN self
    ELSE IF saturating_sub(self.selected, 1) = 0
         THEN [self EXCEPT !.selected = Len(self.entries) - 1]
         ELSE [self EXCEPT !.selected = saturating_sub(self.selected, 1)]

\* fn selection_up
selection_up(self) ==
    IF self.entries = << >> THEN self
    ELSE [self EXCEPT !.selected = saturating_sub(self.selected, 1)]

\* fn selection_down
selection_down(self) ==
    IF self.entries = << >> THEN self
    ELSE [self EXCEPT !.selected = Min(self.selected + 1, Len(self.entries) - 1)]

\* mutant of enter_parent: leaving the directory closes the preview
enter_parent_close_preview(self) ==
    IF IsSome(parent(self.cwd))
    THEN refresh_entries([self EXCEPT !.cwd = Unwrap(parent(self.cwd)), !.selected = 0,
                                      !.preview_path = None, !.preview_content = None,
                                      !.preview_scroll = 0, !.preview_truncated = FALSE])
    ELSE self

\* the `entry.name == ".."` arm of enter_selected
enter_parent(self) ==
    IF IsSome(parent(self.cwd))
    THEN refresh_entries([self EXCEPT !.cwd = Unwrap(parent(self.cwd)), !.selected = 0])
    ELSE self

\* mutant of enter_dir: self.selected = 0 is left out
enter_dir_keep_selected(self, entry) ==
    LET next == join(self.cwd, entry.name)
    IN  IF is_dir(next) THEN refresh_entries([self EXCEPT !.cwd = next]) ELSE self

\* the `entry.is_dir` arm of enter_selected
enter_dir(self, entry) ==
    LET next == join(self.cwd, entry.name)
    IN  IF is_dir(next)
        THEN refresh_entries([self EXCEPT !.cwd = next, !.selected = 0])
        ELSE self

\* mutant of enter_file: self.preview_scroll = 0 is left out
enter_file_keep_scroll(self, entry) ==
    LET path == join(self.cwd, entry.name)
        loaded == load_file_preview(path)
    IN  IF is_file(path)
        THEN [self EXCEPT !.preview_content = Some(loaded[1]),
                          !.preview_path = Some(path),
                          !.preview_truncated = loaded[2]]
        ELSE self

\* the file arm of enter_selected
enter_file(self, entry) ==
    LET path == join(self.cwd, entry.name)
        loaded == load_file_preview(path)
    IN  IF is_file(path)
        THEN [self EXCEPT !.preview_content = Some(loaded[1]),
                          !.preview_path = Some(path),
                          !.preview_scroll = 0,
                          !.preview_truncated = loaded[2]]
        ELSE self

\* fn enter_selected
enter_selected(self) ==
    IF self.selected >= Len(self.entries) THEN self
    ELSE LET entry == self.entries[self.selected + 1]
         IN  IF entry.name = DotDot THEN enter_parent(self)
             ELSE IF entry.is_dir THEN enter_dir(self, entry)
             ELSE enter_file(self, entry)

\* mutant of close_preview: the scroll offset is not reset
close_preview_keep_scroll(self) ==
    [self EXCEPT !.preview_path = None, !.preview_content = None,
                 !.preview_truncated = FALSE]

\* fn close_preview
close_preview(self) ==
    [self EXCEPT !.preview_path = None, !.preview_content = None,
                 !.preview_scroll = 0, !.preview_truncated = FALSE]

\* fn preview_scroll_down
preview_scroll_down(self) ==
    IF IsSome(self.preview_content)
    THEN [self EXCEPT !.preview_scroll = self.preview_scroll + 1]
    ELSE self

\* fn preview_scroll_up
preview_scroll_up(self) ==
    IF IsSome(self.preview_content)
    THEN [self EXCEPT !.preview_scroll = saturating_sub(self.preview_scroll, 1)]
    ELSE self

----------------------------------------------------------------------------
(* The arms of run_app's match on key.code *)

\* mutant of on_k: k moves the selection whether a preview is open or not
on_k_always_selection(self) == selection_up(self)

\* KeyCode::Char('k')
on_k(self) == IF IsSome(self.preview_path) THEN preview_scroll_up(self) ELSE selection_up(self)

\* KeyCode::Char('j')
on_j(self) == IF IsSome(self.preview_path) THEN preview_scroll_down(self) ELSE selection_down(self)

\* mutant of on_h: self.selected = 0 is left out
on_h_keep_selected(self) ==
    IF IsSome(parent(self.cwd))
    THEN refresh_entries([self EXCEPT !.cwd = Unwrap(parent(self.cwd))])
    ELSE self

\* KeyCode::Char('h')
on_h(self) ==
    IF IsSome(parent(self.cwd))
    THEN refresh_entries([self EXCEPT !.cwd = Unwrap(parent(self.cwd)), !.selected = 0])
    ELSE self

\* KeyCode::Char('H')
on_H(self) == refresh_entries([self EXCEPT !.show_hidden = ~ self.show_hidden])

\* mutant of on_Esc: Esc leaves the loop whether a preview is open or not
on_Esc_always_break(self) == << self, FALSE >>

\* KeyCode::Esc: the state of the app, and whether the loop goes on
on_Esc(self) ==
    IF IsSome(self.preview_path) THEN << close_preview(self), TRUE >> ELSE << self, FALSE >>

----------------------------------------------------------------------------
(* Render projector: the scroll offset of the preview paragraph *)

\* `scroll as u16`
as_u16(x) == x % 65536

\* the preview pane is drawn
PreviewDrawn(self) == IsSome(self.preview_path) /\ IsSome(self.preview_content)

\* content.len().saturating_sub(rect.height as usize)
scroll_max(self, height) == saturating_sub(Unwrap(self.preview_content).nlines, height)

\* mutant of ui_scroll: the stored offset is used as it is
ui_scroll_unclamped(self, height) == as_u16(self.preview_scroll)

\* the first component of the argument of Paragraph::scroll
ui_scroll(self, height) == as_u16(Min(self.preview_scroll, scroll_max(self, height)))

----------------------------------------------------------------------------
(* The event loop *)

\* self = s after the step
Becomes(s) ==
    /\ cwd' = s.cwd
    /\ entries' = s.entries
    /\ selected' = s.selected
    /\ show_hidden' = s.show_hidden
    /\ preview_path' = s.preview_path
    /\ preview_content' = s.preview_content
    /\ preview_scroll' = s.preview_scroll
    /\ preview_truncated' = s.preview_truncated

Init ==
    /\ \E d \in StartDirs :
          LET s == new(d)
          IN  /\ cwd = s.cwd
              /\ entries = s.entries
              /\ selected = s.selected
              /\ show_hidden = s.show_hidden
              /\ preview_path = s.preview_path
              /\ preview_content = s.preview_content
              /\ preview_scroll = s.preview_scroll
              /\ preview_truncated = s.preview_truncated
    /\ rect_height \in 0..MaxHeight
    /\ event = "none"
    /\ pc = "loop"
    /\ file_bytes = << >>
    /\ raw_mode = TRUE
    /\ alt_screen = TRUE
    /\ failed = FALSE

KeyQ ==
    /\ pc = "loop"
    /\ event' = "q"
    /\ pc' = "exit"
    /\ Becomes(App)
    /\ UNCHANGED rect_height
    /\ UNCHANGED outside

KeyEsc ==
    /\ pc = "loop"
    /\ event' = "Esc"
    /\ Becomes(on_Esc(App)[1])
    /\ pc' = IF on_Esc(App)[2] THEN "loop" ELSE "exit"
    /\ UNCHANGED rect_height
    /\ UNCHANGED outside

KeyUp ==
    /\ pc = "loop"
    /\ event' = "Up"
    /\ Becomes(selection_up(App))
    /\ UNCHANGED <<rect_height, pc>>
    /\ UNCHANGED outside

KeyDown ==
    /\ pc = "loop"
    /\ event' = "Down"
    /\ Becomes(selection_down(App))
    /\ UNCHANGED <<rect_height, pc>>
    /\ UNCHANGED outside

KeyK ==
    /\ pc = "loop"
    /\ event' = "k"
    /\ Becomes(on_k(App))
    /\ UNCHANGED <<rect_height, pc>>
    /\ UNCHANGED outside

KeyJ ==
    /\ pc = "loop"
    /\ preview_scroll < MaxScroll
    /\ event' = "j"
    /\ Becomes(on_j(App))
    /\ UNCHANGED <<rect_height, pc>>
    /\ UNCHANGED outside

KeyEnter ==
    /\ pc = "loop"
    /\ event' \in {"Enter", "l"}
    /\ Becomes(enter_selected(App))
    /\ UNCHANGED <<rect_height, pc>>
    /\ UNCHANGED outside

KeyH ==
    /\ pc = "loop"
    /\ event' = "h"
    /\ Becomes(on_h(App))
    /\ UNCHANGED <<rect_height, pc>>
    /\ UNCHANGED outside

KeyShiftH ==
    /\ pc = "loop"
    /\ event' = "H"
    /\ Becomes(on_H(App))
    /\ UNCHANGED <<rect_height, pc>>
    /\ UNCHANGED outside

\* any other key: the `_ => {}` arm
KeyOther ==
    /\ pc = "loop"
    /\ event' = "other"
    /\ Becomes(App)
    /\ UNCHANGED <<rect_height, pc>>
    /\ UNCHANGED outside

\* an event that is no key press: the terminal is resized, and the next
\* draw lays the frame out anew
Resize ==
    /\ pc = "loop"
    /\ event' = "Resize"
    /\ rect_height' \in 0..MaxHeight
    /\ Becomes(App)
    /\ UNCHANGED pc
    /\ UNCHANGED outside

Next ==
    \/ KeyQ
    \/ KeyEsc
    \/ KeyUp
    \/ KeyDown
    \/ KeyK
    \/ KeyJ
    \/ KeyEnter
    \/ KeyH
    \/ KeyShiftH
    \/ KeyOther
    \/ Resize

Spec == Init /\ [][Next]_vars

----------------------------------------------------------------------------
(* Properties *)

\* x is an element of the sequence s
InSeq(x, s) == \E i \in 1..Len(s) : s[i] = x

\* a step of the loop that handled the key k
Pressed(k) == event' = k

\* C1: whenever the listing is non-empty the selected index is below its
\* length, and whenever it is empty the selected index is 0.
C1_SelectionInBounds ==
    /\ entries # << >> => selected < Len(entries)
    /\ entries = << >> => selected = 0

\* C1 witness: a directory that cannot be read was entered: its listing is
\* empty and the index is 0.
C1_Witness ==
    /\ event \in {"Enter", "l"}
    /\ cwd = << n_home, n_a >>
    /\ entries = << >>
    /\ selected = 0

\* l is: ".." (at most once, in front), then the directories by lowercased
\* name, then the other entries by lowercased name
Ordered(l) ==
    /\ \A i \in 1..Len(l) : l[i].name = DotDot => i = 1
    /\ \A i, j \in 1..Len(l) :
          (i < j /\ l[i].name # DotDot) =>
             /\ ~ l[i].is_dir => ~ l[j].is_dir
             /\ l[i].is_dir = l[j].is_dir
                   => StrLeq(to_lowercase(l[i].name), to_lowercase(l[j].name))

\* l holds the entries of the directory at path, each once, and besides
\* them nothing but ".."
Complete(l, path) ==
    LET raw == RawEntries(path)
        up  == IF IsSome(parent(path)) THEN 1 ELSE 0
    IN  /\ Len(l) = Len(raw) + up
        /\ \A i \in 1..Len(raw) : InSeq(raw[i], l)
        /\ up = 1 => l[1] = DirEntry(DotDot, TRUE)

\* C2: the listing read_dir_entries returns for a readable directory is
\* ".." first (if the directory has a parent), then all its directories in
\* ascending order of their lowercased names, then all its other entries in
\* ascending order of their lowercased names.
C2_ListingOrdered ==
    read_dir_ok(cwd) =>
        /\ Ordered(read_dir_entries(cwd))
        /\ Complete(read_dir_entries(cwd), cwd)

\* C2 witness: hidden entries shown, the stored listing is what the lister
\* returned for a directory with a parent, sub-directories and files, two
\* of which differ in case only.
C2_Witness ==
    /\ event = "H"
    /\ show_hidden
    /\ cwd = << n_home >>
    /\ entries = read_dir_entries(cwd)
    /\ entries[1].name = DotDot
    /\ \E i \in 2..(Len(entries) - 2) :
          /\ entries[i].name = n_A
          /\ entries[i + 1].name = n_a
          /\ ~ entries[i + 2].is_dir

\* C3: of what the lister yields for the current directory, an entry whose
\* name starts with '.' and is not ".." is in the stored listing iff
\* show_hidden is true, every other entry is in the stored listing, and the
\* stored listing holds nothing else.
C3_HiddenFilter ==
    LET read == read_dir_entries(cwd)
    IN  /\ \A i \in 1..Len(read) :
              IF starts_with_dot(read[i].name) /\ read[i].name # DotDot
              THEN InSeq(read[i], entries) <=> show_hidden
              ELSE InSeq(read[i], entries)
        /\ \A j \in 1..Len(entries) : InSeq(entries[j], read)

\* C3 witness: hidden entries were switched off in a directory that holds
\* dotfiles only: ".." alone is left.
C3_Witness ==
    /\ event = "H"
    /\ ~ show_hidden
    /\ cwd = << n_home, n_git >>
    /\ read_dir_entries(cwd) = << DirEntry(DotDot, TRUE), DirEntry(n_x, FALSE) >>
    /\ entries = << DirEntry(DotDot, TRUE) >>

C5_RoundTrip ==
    LET s1 == on_H(App)
        s2 == on_H(s1)
    IN  /\ s2.entries = entries
        /\ (entries # << >> /\ InSeq(entries[selected + 1], s1.entries))
               => s2.selected = selected

\* C5 as amended: two toggles restore show_hidden and the listing; the
\* selected index becomes the minimum of the original index and the last
\* index of the listing after the first toggle, so it is restored whenever
\* hidden entries were not shown before the two toggles.
C5_RoundTripClamped ==
    LET s1 == on_H(App)
        s2 == on_H(s1)
    IN  /\ s2.entries = entries
        /\ s2.show_hidden = show_hidden
        /\ s2.cwd = cwd
        /\ s2.selected = Min(selected, saturating_sub(Len(s1.entries), 1))
        /\ ~ show_hidden => s2.selected = selected

\* C5 witness: hidden entries were switched on and the selection was moved
\* down to an entry that is no dotfile, beyond the end of the listing
\* without the dotfiles.
C5_Witness ==
    /\ event = "Down"
    /\ show_hidden
    /\ selected < Len(entries)
    /\ ~ starts_with_dot(entries[selected + 1].name)
    /\ selected > Len(on_H(App).entries) - 1

\* C6: whenever the preview pane is drawn, the offset handed to the
\* paragraph lies in 0 .. max(0, lines - height of the preview rectangle),
\* whatever the stored offset is.
C6_EffectiveScrollClamped ==
    PreviewDrawn(App) =>
        /\ ui_scroll(App, rect_height) >= 0
        /\ ui_scroll(App, rect_height)
              <= Max(0, Unwrap(preview_content).nlines - rect_height)

\* C6 witness: after a scroll-down the stored offset is beyond the largest
\* offset of a preview of several lines.
C6_Witness ==
    /\ event = "j"
    /\ PreviewDrawn(App)
    /\ Unwrap(preview_content).nlines > 1
    /\ preview_scroll > Max(0, Unwrap(preview_content).nlines - rect_height)

\* C7: activating ".." where the current directory has a parent, or a
\* directory entry whose target resolves to a directory, makes the parent,
\* or the target, the current directory, the selected index 0 and the
\* listing the relist of the new directory; where the directory has no
\* parent, or the target does not resolve to a directory, the current
\* directory, the listing and the selected index stay as they are.
C7_DirectoryChange ==
    [][ ((Pressed("Enter") \/ Pressed("l")) /\ selected < Len(entries)) =>
          LET entry  == entries[selected + 1]
              target == IF entry.name = DotDot THEN parent(cwd)
                        ELSE IF is_dir(join(cwd, entry.name)) THEN Some(join(cwd, entry.name))
                        ELSE None
          IN  (entry.name = DotDot \/ entry.is_dir) =>
                 IF IsSome(target)
                 THEN /\ cwd' = Unwrap(target)
                      /\ selected' = 0
                      /\ entries' = listing(Unwrap(target), show_hidden)
                 ELSE UNCHANGED <<cwd, entries, selected>>
      ]_vars

\* C7 witness: a sub-directory with several entries was activated: it is the
\* current directory, listed, with the first entry selected.
C7_Witness ==
    /\ event \in {"Enter", "l"}
    /\ cwd = << n_home, n_A >>
    /\ selected = 0
    /\ entries = listing(cwd, show_hidden)
    /\ Len(entries) > 1

\* self with ".." in front of the listing and selected
WithDotDotSelected(self) ==
    [self EXCEPT !.selected = 0,
                 !.entries = IF self.entries # << >> /\ self.entries[1].name = DotDot
                             THEN self.entries
                             ELSE << DirEntry(DotDot, TRUE) >> \o self.entries]

\* C8: where the current directory has a parent, the go-to-parent shortcut
\* yields the state that activating ".." yields: the parent is the current
\* directory, the selected index is 0, the listing is relisted and the
\* preview is as it was; where it has none, the shortcut changes nothing.
C8_ShortcutIsDotDot ==
    [][ Pressed("h") =>
          IF IsSome(parent(cwd))
          THEN /\ App' = enter_selected(WithDotDotSelected(App))
               /\ cwd' = Unwrap(parent(cwd))
               /\ selected' = 0
               /\ entries' = listing(cwd', show_hidden)
               /\ UNCHANGED <<show_hidden, preview_path, preview_content,
                              preview_scroll, preview_truncated>>
          ELSE App' = App
      ]_vars

\* C8 witness: the shortcut was used below a directory that cannot be read:
\* that directory is the current one and its listing, without "..", is empty.
C8_Witness ==
    /\ event = "h"
    /\ cwd = << n_home, n_a >>
    /\ IsSome(parent(cwd))
    /\ entries = << >>

\* C9: Esc with a preview open closes the preview and stays in the loop;
\* Esc with no preview open leaves the loop; q leaves the loop; nothing but
\* Esc and q leaves the loop; so of two Esc in a row the second leaves it.
C9_CloseQuit ==
    [][ /\ (Pressed("Esc") /\ IsSome(preview_path)) =>
              /\ pc' = "loop"
              /\ preview_path' = None
              /\ preview_content' = None
        /\ (Pressed("Esc") /\ ~ IsSome(preview_path)) => pc' = "exit"
        /\ (Pressed("Esc") /\ event = "Esc") => pc' = "exit"
        /\ Pressed("q") => pc' = "exit"
        /\ pc' # pc => (Pressed("q") \/ Pressed("Esc"))
      ]_vars

\* C9 witness: Esc closed a preview and the loop goes on.
C9_Witness ==
    /\ event = "Esc"
    /\ pc = "loop"
    /\ preview_path = None

\* C10: the truncated flag of an open preview is true iff the file could be
\* read and is longer than 512 KiB.
C10_TruncatedFlag ==
    IsSome(preview_path) =>
        (preview_truncated <=>
            (/\ read_ok(Unwrap(preview_path))
             /\ ContentLen(FsNode(Unwrap(preview_path)).content) > 512 * KiB))

----------------------------------------------------------------------------
(* The preview loader on its own: load_file_preview applied to the bytes   *)
(* fs::read returned                                                       *)

\* lengths of the small files: 1..MaxLen
MaxLen == 12

\* the state of the app is s
Holds(s) ==
    /\ cwd = s.cwd
    /\ entries = s.entries
    /\ selected = s.selected
    /\ show_hidden = s.show_hidden
    /\ preview_path = s.preview_path
    /\ preview_content = s.preview_content
    /\ preview_scroll = s.preview_scroll
    /\ preview_truncated = s.preview_truncated

\* files of len bytes, n of them control bytes, in front or behind the text
SmallFiles ==
    { << Run("P", len - n), Run("C", n) >> : len \in 1..MaxLen, n \in 0..MaxLen }
      \cup { << Run("C", n), Run("P", len - n) >> : len \in 1..MaxLen, n \in 0..MaxLen }

\* files of 600 KiB whose first 512 KiB hold a quarter of control bytes,
\* one less, or one more
LargeFiles ==
    { << Run("C", 128 * KiB + d), Run("P", 472 * KiB - d) >> : d \in {-1, 0, 1} }

LoadInputs ==
    { f \in SmallFiles : \A i \in 1..Len(f) : f[i].n >= 0 } \cup LargeFiles

InitLoad ==
    /\ Holds(new(Root))
    /\ rect_height = 0
    /\ event = "none"
    /\ pc = "read"
    /\ file_bytes \in LoadInputs
    /\ raw_mode = TRUE
    /\ alt_screen = TRUE
    /\ failed = FALSE

\* load_file_preview from the point where fs::read has returned Ok(file_bytes)
Load ==
    /\ pc = "read"
    /\ pc' = "loaded"
    /\ preview_content' = Some(load_bytes(file_bytes)[1])
    /\ preview_truncated' = load_bytes(file_bytes)[2]
    /\ UNCHANGED <<cwd, entries, selected, show_hidden, preview_path, preview_scroll,
                   rect_height, event, file_bytes, raw_mode, alt_screen, failed>>

NextLoad == Load

SpecLoad == InitLoad /\ [][NextLoad]_vars

\* the slice the checks of the loader work on
Slice(content) == TakeBytes(content, Min(ContentLen(content), 512 * KiB))

\* C11: for a non-empty slice of L bytes, n of which are neither printable
\* ASCII nor space, tab, CR or LF, the loader yields the single line
\* "(binary file)", not truncated, iff 4 * n > L.
C11_BinaryThreshold ==
    pc = "loaded" =>
        LET L == ContentLen(Slice(file_bytes))
            n == non_print(Slice(file_bytes))
        IN  /\ (preview_content = Some(Lines("binary", 1, 0))) <=> (4 * n > L)
            /\ (Unwrap(preview_content).tag = "binary") <=> (4 * n > L)

\* C11 witness: 2 bytes of 5 (40 %) are control bytes, which floor(5 / 4) = 1
\* does not reach with 1 but does with 2: the file is loaded as binary.
C11_Witness ==
    /\ pc = "loaded"
    /\ ContentLen(file_bytes) = 5
    /\ non_print(file_bytes) = 2
    /\ preview_content = Some(Lines("binary", 1, 0))
    /\ preview_truncated = FALSE

----------------------------------------------------------------------------
(* fn main: the terminal is set up, run_app runs, the terminal is restored. *)
(* Every call followed by `?` may return Err, and main then returns at once *)

InitMain ==
    /\ \E d \in StartDirs : Holds(new(d))
    /\ rect_height \in 0..MaxHeight
    /\ event = "none"
    /\ pc = "enable_raw_mode"
    /\ file_bytes = << >>
    /\ raw_mode = FALSE
    /\ alt_screen = FALSE
    /\ failed = FALSE

\* main returns the error of the call at pc
ReturnErr ==
    /\ pc' = "done"
    /\ failed' = TRUE

\* enable_raw_mode()?
EnableRawMode ==
    /\ pc = "enable_raw_mode"
    /\ \/ raw_mode' = TRUE /\ pc' = "enter_alternate_screen" /\ UNCHANGED failed
       \/ ReturnErr /\ UNCHANGED raw_mode
    /\ Becomes(App)
    /\ UNCHANGED <<rect_height, event, file_bytes, alt_screen>>

\* execute!(stdout, EnterAlternateScreen)?
EnterAlternateScreen ==
    /\ pc = "enter_alternate_screen"
    /\ \/ alt_screen' = TRUE /\ pc' = "terminal_new" /\ UNCHANGED failed
       \/ ReturnErr /\ UNCHANGED alt_screen
    /\ Becomes(App)
    /\ UNCHANGED <<rect_height, event, file_bytes, raw_mode>>

\* ratatui::Terminal::new(backend)?
TerminalNew ==
    /\ pc = "terminal_new"
    /\ \/ pc' = "loop" /\ UNCHANGED failed
       \/ ReturnErr
    /\ Becomes(App)
    /\ UNCHANGED <<rect_height, event, file_bytes, raw_mode, alt_screen>>

\* terminal.draw(..)?, event::poll(..)? or event::read()? returns Err:
\* run_app returns it, and main keeps it in result
LoopIoError ==
    /\ pc = "loop"
    /\ pc' = "exit"
    /\ failed' = TRUE
    /\ Becomes(App)
    /\ UNCHANGED <<rect_height, event, file_bytes, raw_mode, alt_screen>>

\* disable_raw_mode()?, once run_app has returned
DisableRawMode ==
    /\ pc = "exit"
    /\ \/ raw_mode' = FALSE /\ pc' = "leave_alternate_screen" /\ UNCHANGED failed
       \/ ReturnErr /\ UNCHANGED raw_mode
    /\ Becomes(App)
    /\ UNCHANGED <<rect_height, event, file_bytes, alt_screen>>

\* execute!(terminal.backend_mut(), LeaveAlternateScreen)?
LeaveAlternateScreen ==
    /\ pc = "leave_alternate_screen"
    /\ \/ alt_screen' = FALSE /\ pc' = "show_cursor" /\ UNCHANGED failed
       \/ ReturnErr /\ UNCHANGED alt_screen
    /\ Becomes(App)
    /\ UNCHANGED <<rect_height, event, file_bytes, raw_mode>>

\* terminal.show_cursor()?; result?; Ok(())
ShowCursor ==
    /\ pc = "show_cursor"
    /\ \/ pc' = "done" /\ UNCHANGED failed
       \/ ReturnErr
    /\ Becomes(App)
    /\ UNCHANGED <<rect_height, event, file_bytes, raw_mode, alt_screen>>

NextMain ==
    \/ EnableRawMode
    \/ EnterAlternateScreen
    \/ TerminalNew
    \/ Next
    \/ LoopIoError
    \/ DisableRawMode
    \/ LeaveAlternateScreen
    \/ ShowCursor

SpecMain == InitMain /\ [][NextMain]_vars

\* C12: when main has returned, the terminal is neither in raw mode nor on
\* the alternate screen, whichever call failed.
C12_TerminalRestored == pc = "done" => (~ raw_mode /\ ~ alt_screen)

----------------------------------------------------------------------------
(* Properties of the event loop, continued *)

\* C13: while the current directory cannot be read the listing is empty and
\* the selected index 0, no call has failed, and the loop is left by q or
\* Esc only; there "move up", "move down" and "activate" change nothing and
\* the loop goes on.
C13_ReadErrorsAbsorbed ==
    /\ [](~ read_dir_ok(cwd) =>
             /\ entries = << >>
             /\ selected = 0
             /\ ~ failed
             /\ pc = "exit" => event \in {"q", "Esc"})
    /\ [][ (/\ ~ read_dir_ok(cwd)
            /\ Pressed("Up") \/ Pressed("Down") \/ Pressed("Enter") \/ Pressed("l"))
              => (App' = App /\ pc' = "loop")
         ]_vars

\* C13 witness: "move down" in a directory that cannot be read: nothing is
\* listed or selected, and the loop goes on.
C13_Witness ==
    /\ event = "Down"
    /\ ~ read_dir_ok(cwd)
    /\ IsSome(parent(cwd))
    /\ entries = << >>
    /\ selected = 0
    /\ pc = "loop"

\* ".." is the first entry of the stored listing
DotDotFirst == entries # << >> /\ entries[1].name = DotDot

\* ".." is nowhere in the stored listing but in front
DotDotOnlyFirst == \A i \in 2..Len(entries) : entries[i].name # DotDot

\* C14 as stated: the listing holds "..", in front, iff the current
\* directory has a parent, be it readable or not.
C14_DotDotIffParent ==
    /\ DotDotFirst <=> IsSome(parent(cwd))
    /\ DotDotOnlyFirst

\* C14 as amended: the listing holds "..", in front, iff the current
\* directory has a parent and can be read; the listing of a directory that
\* cannot be read is empty.
C14_DotDotIffParentReadable ==
    /\ DotDotFirst <=> (IsSome(parent(cwd)) /\ read_dir_ok(cwd))
    /\ DotDotOnlyFirst
    /\ ~ read_dir_ok(cwd) => entries = << >>

\* C14 witness: hidden entries were switched on in a directory that has a
\* parent and cannot be read: the listing is empty.
C14_Witness ==
    /\ event = "H"
    /\ show_hidden
    /\ IsSome(parent(cwd))
    /\ ~ read_dir_ok(cwd)
    /\ ~ DotDotFirst

\* the selected entry is a file entry whose target is a regular file
FileSelected ==
    /\ selected < Len(entries)
    /\ entries[selected + 1].name # DotDot
    /\ ~ entries[selected + 1].is_dir
    /\ is_file(join(cwd, entries[selected + 1].name))

\* C15: moving the selection, activating anything but a regular file, the
\* go-to-parent shortcut, the hidden toggle, q, other keys and resizes leave
\* the preview's path, lines, truncated flag and stored offset as they are;
\* the scroll keys leave its path, lines and truncated flag as they are.
C15_PreviewPersists ==
    [][ /\ (\/ Pressed("Up") \/ Pressed("Down") \/ Pressed("h") \/ Pressed("H")
            \/ Pressed("q") \/ Pressed("other") \/ Pressed("Resize")
            \/ ((Pressed("Enter") \/ Pressed("l")) /\ ~ FileSelected))
              => UNCHANGED <<preview_path, preview_content, preview_scroll, preview_truncated>>
        /\ (Pressed("k") \/ Pressed("j"))
              => UNCHANGED <<preview_path, preview_content, preview_truncated>>
      ]_vars

\* C15 witness: after the go-to-parent shortcut a scrolled preview is open on
\* a file that is not in the current directory.
C15_Witness ==
    /\ event = "h"
    /\ IsSome(preview_path)
    /\ IsSome(preview_content)
    /\ parent(Unwrap(preview_path)) # Some(cwd)
    /\ preview_scroll > 0

\* C16: activating a file entry whose target is a regular file makes the
\* preview that file, freshly loaded, with the stored offset 0, whatever was
\* previewed before, and leaves the directory, the listing and the selection
\* as they are; if the target is no regular file nothing changes.
C16_FileActivation ==
    [][ (/\ Pressed("Enter") \/ Pressed("l")
         /\ selected < Len(entries)
         /\ entries[selected + 1].name # DotDot
         /\ ~ entries[selected + 1].is_dir)
          => LET path == join(cwd, entries[selected + 1].name)
             IN  IF is_file(path)
                 THEN /\ preview_path' = Some(path)
                      /\ preview_content' = Some(load_file_preview(path)[1])
                      /\ preview_truncated' = load_file_preview(path)[2]
                      /\ preview_scroll' = 0
                      /\ UNCHANGED <<cwd, entries, selected, show_hidden>>
                 ELSE App' = App
      ]_vars

\* C16 witness: the selected file of several lines was activated: it is
\* previewed from its first line.
C16_Witness ==
    /\ event \in {"Enter", "l"}
    /\ selected < Len(entries)
    /\ preview_path = Some(join(cwd, entries[selected + 1].name))
    /\ IsSome(preview_content)
    /\ Unwrap(preview_content).tag = "highlighted"
    /\ Unwrap(preview_content).nlines > 1
    /\ preview_scroll = 0

\* C17: with a preview open, k and j change the stored offset alone, to
\* max(0, offset - 1) and to offset + 1; with none open they move the
\* selection as "move up" and "move down" do and the stored offset stays 0.
C17_ScrollKeys ==
    [][ /\ (Pressed("k") /\ IsSome(preview_path)) =>
              /\ preview_scroll' = Max(0, preview_scroll - 1)
              /\ App' = [App EXCEPT !.preview_scroll = preview_scroll']
        /\ (Pressed("j") /\ IsSome(preview_path)) =>
              /\ preview_scroll' = preview_scroll + 1
              /\ App' = [App EXCEPT !.preview_scroll = preview_scroll']
        /\ (Pressed("k") /\ ~ IsSome(preview_path)) =>
              /\ selected' = IF entries = << >> THEN selected ELSE Max(0, selected - 1)
              /\ preview_scroll' = 0
              /\ App' = [App EXCEPT !.selected = selected']
        /\ (Pressed("j") /\ ~ IsSome(preview_path)) =>
              /\ selected' = IF entries = << >> THEN selected
                             ELSE Min(Len(entries) - 1, selected + 1)
              /\ preview_scroll' = 0
              /\ App' = [App EXCEPT !.selected = selected']
      ]_vars

\* C17 witness: j was pressed twice or more with a preview open and an entry
\* other than the first selected.
C17_Witness ==
    /\ event = "j"
    /\ IsSome(preview_path)
    /\ preview_scroll >= 2
    /\ selected > 0

\* C18: the path of the preview is set iff its lines are, and with no
\* preview open the stored offset is 0 and the truncated flag false.
C18_PreviewCoupled ==
    /\ IsSome(preview_path) <=> IsSome(preview_content)
    /\ ~ IsSome(preview_path) => (preview_scroll = 0 /\ ~ preview_truncated)

\* C18 witness: Esc closed the preview while another than the first entry
\* was selected: path and lines are gone, offset and flag reset.
C18_Witness ==
    /\ event = "Esc"
    /\ pc = "loop"
    /\ selected > 0
    /\ preview_path = None
    /\ preview_content = None
    /\ preview_scroll = 0
    /\ ~ preview_truncated

-----------------------------------------------------------------------------
(* fn ui on an open preview: the offset handed to Paragraph::scroll, with   *)
(* stored offsets on both sides of the 16-bit limit and regions tall enough *)
(* to have body rows                                                        *)

\* presses of j counted from each base
MaxUiScroll == 4

\* rect.height ranges over 0..MaxUiHeight
MaxUiHeight == 5

\* u16::MAX, the largest value `scroll as u16` can yield
U16_MAX == 65535

\* the stored offsets: a window at the top, a window around u16::MAX + 1
ScrollValues == { b + i : b \in {0, U16_MAX - 1}, i \in 0..MaxUiScroll }

\* App after new(d), or after new(d) and one H
UiListings == { new(d) : d \in StartDirs } \cup { on_H(new(d)) : d \in StartDirs }

\* App after the selection was moved to an entry and activated, where that
\* opened a preview
UiStarts ==
    { s \in UNION { { enter_selected([t EXCEPT !.selected = i]) :
                        i \in 0..(Len(t.entries) - 1) } : t \in UiListings } :
        PreviewDrawn(s) }

\* a preview is open and j was pressed preview_scroll times
InitUi ==
    /\ \E s \in UiStarts : \E n \in ScrollValues :
          Holds([s EXCEPT !.preview_scroll = n])
    /\ rect_height \in 0..MaxUiHeight
    /\ event = "none"
    /\ pc = "loop"
    /\ file_bytes = << >>
    /\ raw_mode = TRUE
    /\ alt_screen = TRUE
    /\ failed = FALSE

\* KeyCode::Char('k'), accepted while the offset stays in its window
UiKeyK ==
    /\ pc = "loop"
    /\ saturating_sub(preview_scroll, 1) \in ScrollValues
    /\ event' = "k"
    /\ Becomes(on_k(App))
    /\ UNCHANGED <<rect_height, pc>>
    /\ UNCHANGED outside

\* KeyCode::Char('j'), accepted while the offset stays in its window
UiKeyJ ==
    /\ pc = "loop"
    /\ preview_scroll + 1 \in ScrollValues
    /\ event' = "j"
    /\ Becomes(on_j(App))
    /\ UNCHANGED <<rect_height, pc>>
    /\ UNCHANGED outside

\* the terminal is resized: the next frame has another rect.height
UiResize ==
    /\ pc = "loop"
    /\ event' = "Resize"
    /\ rect_height' \in 0..MaxUiHeight
    /\ Becomes(App)
    /\ UNCHANGED pc
    /\ UNCHANGED outside

NextUi == UiKeyK \/ UiKeyJ \/ UiResize

SpecUi == InitUi /\ [][NextUi]_vars

\* the rows of rect inside Borders::ALL: one row less at the top, one at the
\* bottom
BodyRows(height) == saturating_sub(height, 2)

\* the number of stored lines of the open preview
PreviewLines == Unwrap(preview_content).nlines

\* the last stored line is among the body rows, every line taking one row
\* (a line that wraps takes more, and shows less)
LastLineShown ==
    ui_scroll(App, rect_height) + BodyRows(rect_height) >= PreviewLines

\* C19: a preview with more lines than the body has rows (and a body of at
\* least one row), scrolled down until the effective offset is at its
\* maximum lines - rect.height, shows its last stored line in the body
C19_LastLineReachable ==
    ( /\ PreviewDrawn(App)
      /\ BodyRows(rect_height) >= 1
      /\ PreviewLines > BodyRows(rect_height)
      /\ preview_scroll >= scroll_max(App, rect_height) )
        => LastLineShown

\* C20: the offset handed to the renderer is
\* min(preview_scroll, max(0, lines - rect.height)), whatever the number of
\* lines: the narrowing to 16 bits does not change it
C20_OffsetNotNarrowed ==
    PreviewDrawn(App) =>
        ui_scroll(App, rect_height)
            = Min(preview_scroll, Max(0, PreviewLines - rect_height))

====
